---- MODULE Spec2Model ----
(***************************************************************************)
(* A model of efi/efidisk.c (GRUB legacy, EFI disk layer): device path     *)
(* comparison, enumeration of the firmware's disk handles, the three       *)
(* sorted category lists, positional drive lookup, synthetic geometry,     *)
(* sector I/O dispatch and the handle <-> (drive, partition) translation.  *)
(***************************************************************************)
EXTENDS Integers, Sequences, FiniteSets, TLC

(***************************************************************************)
(* Bounds of the model.                                                    *)
(***************************************************************************)
\* Number of handles the firmware reports for the disk io protocol.
NumHandles == 2
\* Most allocations that may fail within one call of an entry point.
MaxAllocFail == 1
\* Most nodes before the end node in the paths fed to the comparator alone.
MaxCmpNodes == 2

(***************************************************************************)
(* Program constants.                                                      *)
(***************************************************************************)
GRUB_EFI_HARDWARE_DEVICE_PATH_TYPE == 1
GRUB_EFI_ACPI_DEVICE_PATH_TYPE == 2
GRUB_EFI_MESSAGING_DEVICE_PATH_TYPE == 3
GRUB_EFI_MEDIA_DEVICE_PATH_TYPE == 4
GRUB_EFI_END_DEVICE_PATH_TYPE == 127
GRUB_EFI_END_ENTIRE_DEVICE_PATH_SUBTYPE == 255
GRUB_EFI_HARD_DRIVE_DEVICE_PATH_SUBTYPE == 1
GRUB_EFI_CDROM_DEVICE_PATH_SUBTYPE == 2
\* sizeof (grub_efi_device_path_t): type, subtype and two length bytes.
NODE_HEADER_SIZE == 4
SECTOR_SIZE == 512
GRUB_INVALID_DRIVE == 255
\* The value the bootloader keeps in the global cdrom_drive.
cdrom_drive == 256
HD_DRIVE_BIT == 128
WHOLE_DISK == 16777215
SECTORS_PER_TRACK == 63
MAX_HEADS == 255
BIOSDISK_READ == 0
BIOSDISK_WRITE == 1
GRUB_EFI_SUCCESS == 0
GRUB_EFI_DEVICE_ERROR == 7

(***************************************************************************)
(* Device paths.  A node is a record of its header fields and its payload  *)
(* bytes; a pointer to a device path is the sequence of the nodes from the *)
(* pointed one through the end node; the null pointer is the empty         *)
(* sequence.                                                               *)
(***************************************************************************)
NULL == <<>>

Node(t, s, d) == [type |-> t, subtype |-> s, length |-> NODE_HEADER_SIZE + Len(d), data |-> d]

END_NODE == Node(GRUB_EFI_END_DEVICE_PATH_TYPE, GRUB_EFI_END_ENTIRE_DEVICE_PATH_SUBTYPE, <<>>)

GRUB_EFI_DEVICE_PATH_TYPE(dp) == Head(dp).type % 128
GRUB_EFI_DEVICE_PATH_SUBTYPE(dp) == Head(dp).subtype
GRUB_EFI_DEVICE_PATH_LENGTH(dp) == Head(dp).length
GRUB_EFI_NEXT_DEVICE_PATH(dp) == Tail(dp)

GRUB_EFI_END_ENTIRE_DEVICE_PATH(dp) ==
    /\ GRUB_EFI_DEVICE_PATH_TYPE(dp) = GRUB_EFI_END_DEVICE_PATH_TYPE
    /\ GRUB_EFI_DEVICE_PATH_SUBTYPE(dp) = GRUB_EFI_END_ENTIRE_DEVICE_PATH_SUBTYPE

\* The bytes of the node at dp, header first.
NodeBytes(dp) ==
    << Head(dp).type, Head(dp).subtype, Head(dp).length % 256, Head(dp).length \div 256 >>
        \o Head(dp).data

\* grub_memcmp: the difference of the first pair of bytes that differ.
RECURSIVE grub_memcmp(_, _, _)
grub_memcmp(a, b, n) ==
    IF n = 0 THEN 0
    ELSE IF Head(a) # Head(b) THEN Head(a) - Head(b)
    ELSE grub_memcmp(Tail(a), Tail(b), n - 1)

\* Return the device path node right before the end node.
RECURSIVE find_last_from(_)
find_last_from(p) ==
    IF GRUB_EFI_END_ENTIRE_DEVICE_PATH(GRUB_EFI_NEXT_DEVICE_PATH(p)) THEN p
    ELSE find_last_from(GRUB_EFI_NEXT_DEVICE_PATH(p))

find_last_device_path(dp) ==
    IF GRUB_EFI_END_ENTIRE_DEVICE_PATH(dp) THEN NULL ELSE find_last_from(dp)

\* The loop of compare_device_paths, with the type difference reversed.
RECURSIVE compare_loop_type_ascending(_, _)
compare_loop_type_ascending(dp1, dp2) ==
    LET type1 == GRUB_EFI_DEVICE_PATH_TYPE(dp1)
        type2 == GRUB_EFI_DEVICE_PATH_TYPE(dp2)
        subtype1 == GRUB_EFI_DEVICE_PATH_SUBTYPE(dp1)
        subtype2 == GRUB_EFI_DEVICE_PATH_SUBTYPE(dp2)
        len1 == GRUB_EFI_DEVICE_PATH_LENGTH(dp1)
        len2 == GRUB_EFI_DEVICE_PATH_LENGTH(dp2)
        ret == grub_memcmp(NodeBytes(dp1), NodeBytes(dp2), len1)
    IN  IF type1 # type2 THEN type1 - type2
        ELSE IF subtype1 # subtype2 THEN subtype1 - subtype2
        ELSE IF len1 # len2 THEN len1 - len2
        ELSE IF ret # 0 THEN ret
        ELSE IF GRUB_EFI_END_ENTIRE_DEVICE_PATH(dp1) THEN 0
        ELSE compare_loop_type_ascending(Tail(dp1), Tail(dp2))

\* The loop of compare_device_paths over two non-null pointers.
RECURSIVE compare_loop(_, _)
compare_loop(dp1, dp2) ==
    LET type1 == GRUB_EFI_DEVICE_PATH_TYPE(dp1)
        type2 == GRUB_EFI_DEVICE_PATH_TYPE(dp2)
        subtype1 == GRUB_EFI_DEVICE_PATH_SUBTYPE(dp1)
        subtype2 == GRUB_EFI_DEVICE_PATH_SUBTYPE(dp2)
        len1 == GRUB_EFI_DEVICE_PATH_LENGTH(dp1)
        len2 == GRUB_EFI_DEVICE_PATH_LENGTH(dp2)
        ret == grub_memcmp(NodeBytes(dp1), NodeBytes(dp2), len1)
    IN  IF type1 # type2 THEN type2 - type1
        ELSE IF subtype1 # subtype2 THEN subtype1 - subtype2
        ELSE IF len1 # len2 THEN len1 - len2
        ELSE IF ret # 0 THEN ret
        ELSE IF GRUB_EFI_END_ENTIRE_DEVICE_PATH(dp1) THEN 0
        ELSE compare_loop(Tail(dp1), Tail(dp2))

\* Compare device paths.
compare_device_paths(dp1, dp2) ==
    IF dp1 = NULL \/ dp2 = NULL THEN 1 ELSE compare_loop(dp1, dp2)

\* Duplicate a device path: the bytes through the end node, copied.
RECURSIVE duplicate_device_path(_)
duplicate_device_path(dp) ==
    IF GRUB_EFI_END_ENTIRE_DEVICE_PATH(dp) THEN << Head(dp) >>
    ELSE << Head(dp) >> \o duplicate_device_path(GRUB_EFI_NEXT_DEVICE_PATH(dp))

(***************************************************************************)
(* The firmware.  Every handle that supports the disk io protocol is one   *)
(* of the devices below: its device path (NULL when the firmware has       *)
(* none), whether the block io and disk io protocols open, and the media   *)
(* of its block io protocol.                                               *)
(***************************************************************************)
HW(x) == Node(GRUB_EFI_HARDWARE_DEVICE_PATH_TYPE, 1, << x >>)
ACPI(x) == Node(GRUB_EFI_ACPI_DEVICE_PATH_TYPE, 1, << x >>)
MSG(x) == Node(GRUB_EFI_MESSAGING_DEVICE_PATH_TYPE, 1, << x >>)
\* A hard drive media node; the payload is partition_start, partition_size.
HDN(start, size) ==
    Node(GRUB_EFI_MEDIA_DEVICE_PATH_TYPE, GRUB_EFI_HARD_DRIVE_DEVICE_PATH_SUBTYPE, << start, size >>)
\* A cdrom media node.
CDN(start, size) ==
    Node(GRUB_EFI_MEDIA_DEVICE_PATH_TYPE, GRUB_EFI_CDROM_DEVICE_PATH_SUBTYPE, << start, size >>)

Dev(p, b, d, ro, bs, lb) ==
    [path |-> p, bio |-> b, dio |-> d, read_only |-> ro, block_size |-> bs, last_block |-> lb]

Catalogue ==
    << Dev(<< ACPI(0), END_NODE >>, TRUE, TRUE, FALSE, 512, 2879),
       Dev(<< HW(1), MSG(1), END_NODE >>, TRUE, TRUE, FALSE, 512, 999999),
       Dev(<< HW(2), MSG(0), END_NODE >>, TRUE, TRUE, FALSE, 512, 9999),
       Dev(<< HW(1), MSG(3), END_NODE >>, TRUE, TRUE, TRUE, 2048, 16064),
       Dev(<< HW(2), MSG(2), END_NODE >>, TRUE, TRUE, TRUE, 2048, 16063),
       Dev(<< HW(1), MSG(1), HDN(1, 2), END_NODE >>, TRUE, TRUE, FALSE, 512, 1),
       Dev(<< HW(1), MSG(1), CDN(1, 2), END_NODE >>, TRUE, TRUE, FALSE, 512, 1),
       Dev(NULL, TRUE, TRUE, FALSE, 512, 0),
       Dev(<< END_NODE >>, TRUE, TRUE, FALSE, 512, 0),
       Dev(<< HW(1), MSG(1), END_NODE >>, FALSE, TRUE, FALSE, 512, 999999) >>

Kinds == 1 .. Len(Catalogue)
Handles == 1 .. NumHandles

\* The partition table the external walker next_partition reads from a disk
\* with the given device path: the entries in the order it yields them.
PartitionTable(path) ==
    IF path = << HW(1), MSG(1), END_NODE >>
    THEN << [part |-> 65535, type |-> 0, start |-> 1, len |-> 2],
            [part |-> 131071, type |-> 131, start |-> 1, len |-> 2] >>
    ELSE << >>

\* The sets of allocations, counted from 1 within one call, that fail.
AllocFailures(most) ==
    { f \in SUBSET (1 .. most) : Cardinality(f) <= MaxAllocFail }

VARIABLES
    fw_kind,      \* handle -> the device of the catalogue behind it
    fw_path,      \* handle -> its device path in firmware memory
    fd_devices,   \* the persistent lists: sequences of device records
    hd_devices,
    cd_devices,
    freed,        \* the records the list heads reach have been freed
    torn,         \* grub_efidisk_fini ran after the last grub_efidisk_init
    uaf,          \* a freed record was reached through a list head
    crashed,      \* an access to freed memory stopped the program
    op,           \* the entry point that returned and whose result the
                  \* caller holds, "none" between two calls
    arg,          \* its arguments
    res,          \* what it returned
    cmp           \* the comparator alone: its arguments and results

vars == << fw_kind, fw_path, fd_devices, hd_devices, cd_devices, freed, torn, uaf,
           crashed, op, arg, res, cmp >>

(***************************************************************************)
(* Device records (struct grub_efidisk_data).  device_path and             *)
(* last_device_path point into the firmware's memory for the handle, and   *)
(* block_io and disk_io at its protocol instances, so a record is the      *)
(* handle and the offset of the last node; mem is the firmware's memory.   *)
(***************************************************************************)
NoDev == [handle |-> 0, last |-> 0]

device_path(mem, d) == mem[d.handle]
last_device_path(mem, d) ==
    IF d.last = 0 THEN NULL ELSE SubSeq(mem[d.handle], d.last, Len(mem[d.handle]))
media(d) == Catalogue[fw_kind[d.handle]]

\* The loop of make_devices from the given handle on; n counts the call's
\* allocations, and the records linked so far are lost when one fails.
RECURSIVE make_devices_loop(_, _, _, _, _)
make_devices_loop(mem, handle, devices, n, fails) ==
    IF handle > NumHandles THEN [devices |-> devices, n |-> n, leaked |-> 0]
    ELSE LET dp == mem[handle]
             ldp == find_last_device_path(dp)
             k == Catalogue[fw_kind[handle]]
         IN  IF dp = NULL THEN make_devices_loop(mem, handle + 1, devices, n, fails)
             ELSE IF ldp = NULL THEN make_devices_loop(mem, handle + 1, devices, n, fails)
             ELSE IF ~k.bio \/ ~k.dio THEN make_devices_loop(mem, handle + 1, devices, n, fails)
             ELSE IF n \in fails
                  THEN [devices |-> << >>, n |-> n + 1, leaked |-> Len(devices)]
             ELSE make_devices_loop(mem, handle + 1,
                      << [handle |-> handle, last |-> Len(dp) - 1] >> \o devices, n + 1, fails)

\* make_devices: allocation n is the handle array of grub_efi_locate_handle.
make_devices(mem, n, fails) ==
    IF n \in fails THEN [devices |-> << >>, n |-> n + 1, leaked |-> 0]
    ELSE make_devices_loop(mem, 1, << >>, n + 1, fails)

\* The order add_device gives an entry e against the new device d: that of
\* their last nodes, and of their whole paths when the last nodes are equal.
full_order_if_equal(leaf, mem, e, d) ==
    IF leaf = 0 THEN compare_device_paths(device_path(mem, e), device_path(mem, d)) ELSE leaf

entry_order(mem, e, d) ==
    full_order_if_equal(
        compare_device_paths(find_last_device_path(device_path(mem, e)),
                             find_last_device_path(device_path(mem, d))),
        mem, e, d)

\* The scan of add_device from position p: 0 when an entry equals d, else
\* the position the new entry is linked at.
RECURSIVE add_device_scan(_, _, _, _)
\* scan_step stopping at the first entry that is less than the new device.
scan_step_descending(ret, mem, devices, d, p) ==
    IF ret = 0 THEN 0
    ELSE IF ret < 0 THEN p
    ELSE add_device_scan(mem, devices, d, p + 1)

\* scan_step without the test for an equal entry.
scan_step_no_equal_test(ret, mem, devices, d, p) ==
    IF ret >= 0 THEN p
    ELSE add_device_scan(mem, devices, d, p + 1)

\* One step of the scan: ret is the order of the entry at p against d.
scan_step(ret, mem, devices, d, p) ==
    IF ret = 0 THEN 0
    ELSE IF ret > 0 THEN p
    ELSE add_device_scan(mem, devices, d, p + 1)

add_device_scan(mem, devices, d, p) ==
    IF p > Len(devices) THEN p
    ELSE scan_step(entry_order(mem, devices[p], d), mem, devices, d, p)

\* The end of add_device: p is what the scan returned, n the number of the
\* allocation it makes; it makes none for a duplicate.
add_device_at(p, devices, d, n, fails) ==
    IF p = 0 THEN [devices |-> devices, n |-> n]
    ELSE IF n \in fails THEN [devices |-> devices, n |-> n + 1]
    ELSE [devices |-> SubSeq(devices, 1, p - 1) \o << d >> \o SubSeq(devices, p, Len(devices)),
          n |-> n + 1]

\* Add a device into a list of devices in an ascending order.
add_device(mem, devices, d, n, fails) ==
    add_device_at(add_device_scan(mem, devices, d, 1), devices, d, n, fails)

\* The list name_devices adds a device to, by its last node and its media.
category(type, m) ==
    IF type = GRUB_EFI_MESSAGING_DEVICE_PATH_TYPE
    THEN IF m.read_only /\ m.block_size > SECTOR_SIZE THEN "cd" ELSE "hd"
    ELSE IF type = GRUB_EFI_ACPI_DEVICE_PATH_TYPE THEN "fd"
    ELSE "none"

\* lists is the three persistent lists and the number of the next
\* allocation of the call.
linked(lists, list, added) == [lists EXCEPT ![list] = added.devices, !.n = added.n]

name_device(mem, d, lists, list, fails) ==
    IF list = "none" THEN lists
    ELSE linked(lists, list, add_device(mem, lists[list], d, lists.n, fails))

\* Name the devices.
RECURSIVE name_devices(_, _, _, _)
name_devices(mem, devices, lists, fails) ==
    IF devices = << >> THEN lists
    ELSE name_devices(mem, Tail(devices),
             name_device(mem, Head(devices), lists,
                 category(GRUB_EFI_DEVICE_PATH_TYPE(last_device_path(mem, Head(devices))),
                          media(Head(devices))),
                 fails),
             fails)

\* Enumerate all disks to name devices.  The transient records are freed
\* when make_devices returned any; leaked counts those it lost.
name_made(mem, made, lists, fails) ==
    IF made.devices = << >> THEN [lists |-> [lists EXCEPT !.n = made.n], leaked |-> made.leaked]
    ELSE [lists |-> name_devices(mem, made.devices, [lists EXCEPT !.n = made.n], fails),
          leaked |-> 0]

enumerate_disks(mem, lists, fails) ==
    name_made(mem, make_devices(mem, lists.n, fails), lists, fails)

\* get_device counting the entries from 1.
RECURSIVE get_device_from_one(_, _)
get_device_from_one(devices, num) ==
    IF devices # << >> /\ num # 1 THEN get_device_from_one(Tail(devices), num - 1)
    ELSE IF num = 1 /\ devices # << >> THEN Head(devices)
    ELSE NoDev

RECURSIVE get_device(_, _)
get_device(devices, num) ==
    IF devices # << >> /\ num # 0 THEN get_device(Tail(devices), num - 1)
    ELSE IF num = 0 /\ devices # << >> THEN Head(devices)
    ELSE NoDev

\* get_device_from_drive over the three lists; drive & 0x80 selects the
\* hard disks.  NoDev is the null pointer.
get_device_from_drive(fd, hd, cd, drive) ==
    IF drive = GRUB_INVALID_DRIVE THEN NoDev
    ELSE IF drive = cdrom_drive THEN get_device(cd, 0)
    ELSE IF (drive \div HD_DRIVE_BIT) % 2 = 1 THEN get_device(hd, drive - HD_DRIVE_BIT)
    ELSE get_device(fd, drive)

(***************************************************************************)
(* Drive abstraction.                                                      *)
(***************************************************************************)
\* The caller's struct geometry before get_diskinfo writes to it.
NoGeometry ==
    [total_sectors |-> -1, sector_size |-> -1, sectors |-> -1, heads |-> -1, cylinders |-> -1]

\* heads_of with 255 heads only above 255 tracks.
heads_of_inclusive(total_sectors) ==
    IF total_sectors \div SECTORS_PER_TRACK <= MAX_HEADS THEN 1 ELSE MAX_HEADS

\* The geometry get_diskinfo writes for a device.
heads_of(total_sectors) ==
    IF total_sectors \div SECTORS_PER_TRACK < MAX_HEADS THEN 1 ELSE MAX_HEADS

geometry_of(total_sectors, sector_size) ==
    [total_sectors |-> total_sectors,
     sector_size |-> sector_size,
     sectors |-> SECTORS_PER_TRACK,
     heads |-> heads_of(total_sectors),
     cylinders |-> (total_sectors \div SECTORS_PER_TRACK) \div heads_of(total_sectors)]

diskinfo_of(d) ==
    IF d = NoDev THEN [ret |-> -1, geometry |-> NoGeometry]
    ELSE [ret |-> 0, geometry |-> geometry_of(media(d).last_block + 1, media(d).block_size)]

get_diskinfo(fd, hd, cd, drive) == diskinfo_of(get_device_from_drive(fd, hd, cd, drive))

\* grub_efidisk_read and grub_efidisk_write: one call of the disk io
\* protocol, whose status is the firmware's; they differ in the service
\* called only.
grub_efidisk_transfer(d, sector, size, status) ==
    [ret |-> IF status # GRUB_EFI_SUCCESS THEN -1 ELSE 0,
     offset |-> sector * media(d).block_size,
     length |-> size * media(d).block_size,
     transfers |-> 1]

NoTransfer == [ret |-> 0, offset |-> -1, length |-> -1, transfers |-> 0]

\* biosdisk after get_device_from_drive: ret of the transfer is assigned
\* and 0 is returned.
biosdisk_on(d, subfunc, sector, nsec, status) ==
    IF d = NoDev THEN [NoTransfer EXCEPT !.ret = -1]
    ELSE IF subfunc = BIOSDISK_READ \/ subfunc = BIOSDISK_WRITE
         THEN [grub_efidisk_transfer(d, sector, nsec, status) EXCEPT !.ret = 0]
    ELSE [NoTransfer EXCEPT !.ret = -1]

biosdisk(fd, hd, cd, subfunc, drive, sector, nsec, status) ==
    biosdisk_on(get_device_from_drive(fd, hd, cd, drive), subfunc, sector, nsec, status)

(***************************************************************************)
(* Child devices.                                                          *)
(***************************************************************************)
\* The copy iterate_child_devices makes of a path, its last node
\* overwritten by an end node.
RECURSIVE end_at_last(_)
end_at_last(dp) ==
    IF GRUB_EFI_END_ENTIRE_DEVICE_PATH(GRUB_EFI_NEXT_DEVICE_PATH(dp)) THEN << END_NODE >>
    ELSE << Head(dp) >> \o end_at_last(GRUB_EFI_NEXT_DEVICE_PATH(dp))

\* The test iterate_child_devices makes before it calls the hook, without
\* the comparison.
any_device(mem, p, d) == TRUE

\* Whether p is a child of d: p's path cut before its last node is d's.
is_child(mem, p, d) ==
    compare_device_paths(end_at_last(duplicate_device_path(device_path(mem, p))),
                         device_path(mem, d)) = 0

\* iterate_child_devices: the first child of d the hook accepts (NoDev when
\* it returns 0), the hook given as its value for each device; every path
\* it duplicates is an allocation, freed before it goes on.
RECURSIVE iterate_child_devices(_, _, _, _, _, _)
iterate_child_devices(mem, devices, d, hook, n, fails) ==
    IF devices = << >> THEN [child |-> NoDev, n |-> n]
    ELSE IF n \in fails THEN [child |-> NoDev, n |-> n + 1]
    ELSE IF is_child(mem, Head(devices), d) /\ hook[Head(devices)]
         THEN [child |-> Head(devices), n |-> n + 1]
    ELSE iterate_child_devices(mem, Tail(devices), d, hook, n + 1, fails)

\* The fields a hook copies out of a last node as a hard drive node.
hard_drive(ldp) ==
    IF Len(Head(ldp).data) >= 2
    THEN [partition_start |-> Head(ldp).data[1], partition_size |-> Head(ldp).data[2]]
    ELSE [partition_start |-> -1, partition_size |-> -1]

find_partition(ldp, part_start, part_length) ==
    /\ GRUB_EFI_DEVICE_PATH_TYPE(ldp) = GRUB_EFI_MEDIA_DEVICE_PATH_TYPE
    /\ GRUB_EFI_DEVICE_PATH_SUBTYPE(ldp) = GRUB_EFI_HARD_DRIVE_DEVICE_PATH_SUBTYPE
    /\ part_start = hard_drive(ldp).partition_start
    /\ part_length = hard_drive(ldp).partition_size

\* The last branch of grub_efidisk_get_current_bdev_handle: the handle of
\* the child of d that find_partition accepts; the records are freed.
partition_handle_found(made, it) ==
    [handle |-> it.child.handle, leaked |-> made.leaked, n |-> it.n, devices |-> made.devices]

partition_handle_in(mem, made, d, part_start, part_length, fails) ==
    LET hook == [c \in { made.devices[i] : i \in DOMAIN made.devices } |->
                    find_partition(last_device_path(mem, c), part_start, part_length)]
    IN  partition_handle_found(made,
            iterate_child_devices(mem, made.devices, d, hook, made.n, fails))

partition_handle(mem, d, part_start, part_length, fails) ==
    partition_handle_in(mem, make_devices(mem, 1, fails), d, part_start, part_length, fails)

\* What grub_efidisk_get_current_bdev_handle returns without enumerating:
\* the handle of d, 0 (the null handle) for the null pointer.
own_handle(d) == [handle |-> d.handle, leaked |-> 0, n |-> 1, devices |-> << >>]

\* grub_efidisk_get_current_bdev_handle after get_device_from_drive.
bdev_handle_of(mem, d, current_drive, current_partition, part_start, part_length, fails) ==
    IF d = NoDev THEN own_handle(NoDev)
    ELSE IF current_drive = GRUB_INVALID_DRIVE THEN own_handle(NoDev)
    ELSE IF current_drive = cdrom_drive THEN own_handle(d)
    ELSE IF (current_drive \div HD_DRIVE_BIT) % 2 = 0 THEN own_handle(d)
    ELSE IF current_partition = WHOLE_DISK THEN own_handle(d)
    ELSE partition_handle(mem, d, part_start, part_length, fails)

grub_efidisk_get_current_bdev_handle(mem, fd, hd, cd, current_drive, current_partition, part_start, part_length, fails) ==
    bdev_handle_of(mem, get_device_from_drive(fd, hd, cd, current_drive), current_drive,
                   current_partition, part_start, part_length, fails)

(***************************************************************************)
(* Handle to (drive, partition).                                           *)
(***************************************************************************)
\* The walk of grub_get_drive_partition_from_bdev_handle over the handle's
\* path, in the firmware's memory: a cdrom media node becomes the end node.
RECURSIVE end_at_cdrom(_)
end_at_cdrom(dp1) ==
    IF /\ GRUB_EFI_DEVICE_PATH_TYPE(dp1) = GRUB_EFI_MEDIA_DEVICE_PATH_TYPE
       /\ GRUB_EFI_DEVICE_PATH_SUBTYPE(dp1) = GRUB_EFI_CDROM_DEVICE_PATH_SUBTYPE
    THEN << END_NODE >>
    ELSE IF GRUB_EFI_END_ENTIRE_DEVICE_PATH(dp1) THEN << Head(dp1) >>
    ELSE << Head(dp1) >> \o end_at_cdrom(GRUB_EFI_NEXT_DEVICE_PATH(dp1))

\* match_entry with drv advanced before the comparison.
RECURSIVE match_entry_advanced(_, _, _, _)
match_entry_advanced(mem, devices, dp, drv) ==
    IF drv > Len(devices) THEN 0
    ELSE IF compare_device_paths(device_path(mem, devices[drv]), dp) = 0 THEN drv + 1
    ELSE match_entry_advanced(mem, devices, dp, drv + 1)

\* The loop over one list of grub_get_drive_partition_from_bdev_handle: the
\* position of the first entry whose path is dp, 0 when none.
RECURSIVE match_entry(_, _, _, _)
match_entry(mem, devices, dp, drv) ==
    IF drv > Len(devices) THEN 0
    ELSE IF compare_device_paths(device_path(mem, devices[drv]), dp) = 0 THEN drv
    ELSE match_entry(mem, devices, dp, drv + 1)

\* The test on the head of cd_devices.
match_cdrom(mem, cd, dp) ==
    cd # << >> /\ compare_device_paths(device_path(mem, cd[1]), dp) = 0

find_bdev(mem, c, dp) == compare_device_paths(device_path(mem, c), dp) = 0

\* The loop over hd_devices that looks for the parent of dp: the position
\* of the hard disk, the child found (NoDev when none) and the allocations.
RECURSIVE find_parent(_, _, _, _, _, _, _)
parent_step(it, mem, hd, devices, dp, drv, fails) ==
    IF it.child # NoDev THEN [drv |-> drv, child |-> it.child, n |-> it.n]
    ELSE find_parent(mem, hd, devices, dp, drv + 1, it.n, fails)

find_parent(mem, hd, devices, dp, drv, n, fails) ==
    IF drv > Len(hd) THEN [drv |-> drv, child |-> NoDev, n |-> n]
    ELSE LET hook == [c \in { devices[i] : i \in DOMAIN devices } |-> find_bdev(mem, c, dp)]
         IN  parent_step(iterate_child_devices(mem, devices, hd[drv], hook, n, fails),
                         mem, hd, devices, dp, drv, fails)

\* The loop over next_partition: the number of the first partition of a
\* type other than 0 that starts and ends as the hard drive node says, -1
\* when the walker ends.
RECURSIVE walk_partitions(_, _)
walk_partitions(table, hdn) ==
    IF table = << >> THEN -1
    ELSE IF /\ Head(table).type # 0
            /\ Head(table).start = hdn.partition_start
            /\ Head(table).len = hdn.partition_size
         THEN Head(table).part
    ELSE walk_partitions(Tail(table), hdn)

NotFound == [found |-> 0, drive |-> -1, partition |-> -1, leaked |-> 0, n |-> 1]

\* The end of grub_get_drive_partition_from_bdev_handle, from the loop over
\* next_partition on.
partition_found(part, leaked, par) ==
    IF part = -1 THEN [NotFound EXCEPT !.leaked = leaked, !.n = par.n]
    ELSE [found |-> 1, drive |-> HD_DRIVE_BIT + par.drv - 1, partition |-> part,
          leaked |-> leaked, n |-> par.n]

partition_of_child(mem, hd, leaked, par) ==
    IF par.child = NoDev THEN [NotFound EXCEPT !.leaked = leaked, !.n = par.n]
    ELSE partition_found(
             walk_partitions(PartitionTable(device_path(mem, hd[par.drv])),
                             hard_drive(last_device_path(mem, par.child))),
             leaked, par)

partition_in(mem, hd, made, dp, fails) ==
    partition_of_child(mem, hd, made.leaked,
                       find_parent(mem, hd, made.devices, dp, 1, made.n, fails))

\* What the loop over one list returns for the position f of the match.
whole_disk(base, f) ==
    [NotFound EXCEPT !.found = 1, !.drive = base + f - 1, !.partition = WHOLE_DISK]

in_hd_devices(h, mem, hd, dp, fails) ==
    IF h # 0 THEN whole_disk(HD_DRIVE_BIT, h)
    ELSE partition_in(mem, hd, make_devices(mem, 1, fails), dp, fails)

in_cd_devices(mem, hd, cd, dp, fails) ==
    IF match_cdrom(mem, cd, dp) THEN whole_disk(cdrom_drive, 1)
    ELSE in_hd_devices(match_entry(mem, hd, dp, 1), mem, hd, dp, fails)

in_fd_devices(f, mem, hd, cd, dp, fails) ==
    IF f # 0 THEN whole_disk(0, f)
    ELSE in_cd_devices(mem, hd, cd, dp, fails)

\* grub_get_drive_partition_from_bdev_handle, after the walk over the
\* handle's path: mem is the firmware's memory as the walk left it.
grub_get_drive_partition_from_bdev_handle(mem, fd, hd, cd, handle, fails) ==
    IF mem[handle] = NULL THEN NotFound
    ELSE in_fd_devices(match_entry(mem, fd, mem[handle], 1), mem, hd, cd, mem[handle], fails)

(***************************************************************************)
(* The inputs of the entry points.                                         *)
(***************************************************************************)
Drives ==
    (0 .. NumHandles) \cup (HD_DRIVE_BIT .. HD_DRIVE_BIT + NumHandles)
        \cup { HD_DRIVE_BIT - 1, GRUB_INVALID_DRIVE, cdrom_drive }
Partitions == { WHOLE_DISK, 131071 }
PartLengths == { 2, 3 }
Subfuncs == { BIOSDISK_READ, BIOSDISK_WRITE, 2 }
Statuses == { GRUB_EFI_SUCCESS, GRUB_EFI_DEVICE_ERROR }

\* alloc_failed: an allocation of the call failed; enumerated: the records
\* make_devices gave the call; dev: the record the drive resolved to.
NoRes ==
    [ret |-> 0, dev |-> NoDev, handle |-> 0, drive |-> -1, partition |-> -1,
     geometry |-> NoGeometry, transfers |-> 0, offset |-> -1, length |-> -1, leaked |-> 0,
     alloc_failed |-> FALSE, enumerated |-> << >>]

NoCmp == [a |-> NULL, b |-> NULL, c |-> NULL, done |-> FALSE, ab |-> 0, ba |-> 0, bc |-> 0, ac |-> 0]

Lists == << fd_devices, hd_devices, cd_devices >>

\* The list get_device_from_drive walks for a drive.
ListOfDrive(drive) ==
    IF drive = GRUB_INVALID_DRIVE THEN << >>
    ELSE IF drive = cdrom_drive THEN cd_devices
    ELSE IF (drive \div HD_DRIVE_BIT) % 2 = 1 THEN hd_devices
    ELSE fd_devices

\* Whether one of the first n - 1 allocations of a call failed.
AllocFailed(fails, n) == \E k \in fails : k < n

\* The caller gets r back.  When the call went through a list head to
\* records that grub_efidisk_fini freed (touch), what it read is undefined:
\* the memory may still hold the records, or the program stops.
Return(o, a, r, touch) ==
    /\ op' = o
    /\ arg' = a
    /\ uaf' = (uaf \/ (freed /\ touch))
    /\ \/ /\ res' = r
          /\ crashed' = FALSE
       \/ /\ freed /\ touch
          /\ res' = NoRes
          /\ crashed' = TRUE

Init ==
    /\ fw_kind \in [Handles -> Kinds]
    /\ fw_path = [h \in Handles |-> Catalogue[fw_kind[h]].path]
    /\ fd_devices = << >>
    /\ hd_devices = << >>
    /\ cd_devices = << >>
    /\ freed = FALSE
    /\ torn = FALSE
    /\ uaf = FALSE
    /\ crashed = FALSE
    /\ op = "none"
    /\ arg = << >>
    /\ res = NoRes
    /\ cmp = NoCmp

\* The environment is single-threaded: an entry point is called when no
\* other call is under way and the program has not stopped.
Callable == op = "none" /\ ~crashed

\* Whether name_devices adds d to a list that is not empty.
AddsToList(d) ==
    LET dp == last_device_path(fw_path, d)
        m == media(d)
    IN  IF GRUB_EFI_DEVICE_PATH_TYPE(dp) = GRUB_EFI_MESSAGING_DEVICE_PATH_TYPE
        THEN IF m.read_only /\ m.block_size > SECTOR_SIZE
             THEN cd_devices # << >> ELSE hd_devices # << >>
        ELSE GRUB_EFI_DEVICE_PATH_TYPE(dp) = GRUB_EFI_ACPI_DEVICE_PATH_TYPE
             /\ fd_devices # << >>

AddsToLists(devices) == \E i \in 1 .. Len(devices) : AddsToList(devices[i])

\* The lists after enumerate_disks returned r; touch: it added to a list
\* whose records are freed.
Initialised(r, touch, fails) ==
    /\ op' = "init"
    /\ arg' = << >>
    /\ uaf' = (uaf \/ (freed /\ touch))
    /\ \/ /\ fd_devices' = r.lists.fd
          /\ hd_devices' = r.lists.hd
          /\ cd_devices' = r.lists.cd
          /\ res' = [NoRes EXCEPT !.leaked = r.leaked,
                                  !.alloc_failed = AllocFailed(fails, r.lists.n)]
          /\ torn' = FALSE
          /\ crashed' = FALSE
       \/ /\ freed /\ touch
          /\ res' = NoRes
          /\ crashed' = TRUE
          /\ UNCHANGED << fd_devices, hd_devices, cd_devices, torn >>

grub_efidisk_init ==
    /\ Callable
    /\ \E fails \in AllocFailures(2 * NumHandles + 1) :
        Initialised(enumerate_disks(fw_path,
                        [fd |-> fd_devices, hd |-> hd_devices, cd |-> cd_devices, n |-> 1],
                        fails),
                    AddsToLists(make_devices(fw_path, 1, fails).devices), fails)
    /\ UNCHANGED << fw_kind, fw_path, freed, cmp >>

\* grub_efidisk_fini frees the records of the three lists and leaves the
\* list heads as they are.
grub_efidisk_fini ==
    /\ Callable
    /\ op' = "fini"
    /\ arg' = << >>
    /\ torn' = TRUE
    /\ freed' = (freed \/ \E i \in 1 .. 3 : Lists[i] # << >>)
    /\ uaf' = (uaf \/ freed)
    /\ \/ /\ res' = NoRes
          /\ crashed' = FALSE
       \/ /\ freed
          /\ res' = NoRes
          /\ crashed' = TRUE
    /\ UNCHANGED << fw_kind, fw_path, fd_devices, hd_devices, cd_devices, cmp >>

\* What the caller of an entry point sees: r, and the record the drive
\* resolved to.
DiskinfoRes(r, d) == [NoRes EXCEPT !.ret = r.ret, !.geometry = r.geometry, !.dev = d]

BiosdiskRes(r, d) ==
    [NoRes EXCEPT !.ret = r.ret, !.transfers = r.transfers, !.offset = r.offset,
                  !.length = r.length, !.dev = d]

BdevHandleRes(r, d, fails) ==
    [NoRes EXCEPT !.handle = r.handle, !.leaked = r.leaked,
                  !.alloc_failed = AllocFailed(fails, r.n), !.dev = d,
                  !.enumerated = r.devices]

DrivePartitionRes(r, fails) ==
    [NoRes EXCEPT !.ret = r.found, !.drive = r.drive, !.partition = r.partition,
                  !.leaked = r.leaked, !.alloc_failed = AllocFailed(fails, r.n)]

\* The firmware's memory after the walk over the path of the handle.
walked(mem, handle) ==
    IF mem[handle] = NULL THEN mem ELSE [mem EXCEPT ![handle] = end_at_cdrom(mem[handle])]

GetDiskinfo ==
    /\ Callable
    /\ \E drive \in Drives :
        Return("get_diskinfo", [drive |-> drive],
               DiskinfoRes(get_diskinfo(fd_devices, hd_devices, cd_devices, drive),
                           get_device_from_drive(fd_devices, hd_devices, cd_devices, drive)),
               ListOfDrive(drive) # << >>)
    /\ UNCHANGED << fw_kind, fw_path, fd_devices, hd_devices, cd_devices, freed, torn, cmp >>

Biosdisk ==
    /\ Callable
    /\ \E subfunc \in Subfuncs, drive \in Drives, status \in Statuses :
        Return("biosdisk",
               [subfunc |-> subfunc, drive |-> drive, sector |-> 10, nsec |-> 4,
                status |-> status],
               BiosdiskRes(biosdisk(fd_devices, hd_devices, cd_devices, subfunc, drive, 10, 4,
                                    status),
                           get_device_from_drive(fd_devices, hd_devices, cd_devices, drive)),
               ListOfDrive(drive) # << >>)
    /\ UNCHANGED << fw_kind, fw_path, fd_devices, hd_devices, cd_devices, freed, torn, cmp >>

GetCurrentBdevHandle ==
    /\ Callable
    /\ \E current_drive \in Drives, current_partition \in Partitions,
          part_length \in PartLengths, fails \in AllocFailures(2 * NumHandles + 1) :
        Return("get_current_bdev_handle",
               [drive |-> current_drive, partition |-> current_partition,
                part_start |-> 1, part_length |-> part_length],
               BdevHandleRes(
                   grub_efidisk_get_current_bdev_handle(fw_path, fd_devices, hd_devices,
                       cd_devices, current_drive, current_partition, 1, part_length, fails),
                   get_device_from_drive(fd_devices, hd_devices, cd_devices, current_drive),
                   fails),
               ListOfDrive(current_drive) # << >>)
    /\ UNCHANGED << fw_kind, fw_path, fd_devices, hd_devices, cd_devices, freed, torn, cmp >>

\* The walk over the handle's path writes to the firmware's memory before
\* any list is read.
GetDrivePartitionFromBdevHandle ==
    /\ Callable
    /\ \E handle \in Handles, fails \in AllocFailures(NumHandles * NumHandles + NumHandles + 1) :
        /\ fw_path' = walked(fw_path, handle)
        /\ Return("get_drive_partition", [handle |-> handle],
                  DrivePartitionRes(
                      grub_get_drive_partition_from_bdev_handle(walked(fw_path, handle),
                          fd_devices, hd_devices, cd_devices, handle, fails),
                      fails),
                  fw_path[handle] # NULL /\ \E i \in 1 .. 3 : Lists[i] # << >>)
    /\ UNCHANGED << fw_kind, fd_devices, hd_devices, cd_devices, freed, torn, cmp >>

\* The caller takes the result of the call that returned.
TakeResult ==
    /\ op # "none"
    /\ ~crashed
    /\ op' = "none"
    /\ arg' = << >>
    /\ res' = NoRes
    /\ UNCHANGED << fw_kind, fw_path, fd_devices, hd_devices, cd_devices, freed, torn, uaf,
                    crashed, cmp >>

Next ==
    \/ grub_efidisk_init
    \/ grub_efidisk_fini
    \/ GetDiskinfo
    \/ Biosdisk
    \/ GetCurrentBdevHandle
    \/ GetDrivePartitionFromBdevHandle
    \/ TakeResult

Spec == Init /\ [][Next]_vars

(***************************************************************************)
(* The comparator alone, on every triple of paths of at most MaxCmpNodes   *)
(* nodes before the end node.                                              *)
(***************************************************************************)
CmpNodes ==
    { Node(2, 1, << 0 >>), Node(2, 1, << 1 >>), Node(2, 1, << 0, 0 >>), Node(2, 2, << 0 >>),
      Node(3, 2, << 0 >>) }

CmpPaths ==
    { nodes \o << END_NODE >> :
        nodes \in UNION { [1 .. n -> CmpNodes] : n \in 0 .. MaxCmpNodes } }

InitCmp ==
    /\ fw_kind = [h \in Handles |-> 1]
    /\ fw_path = [h \in Handles |-> Catalogue[1].path]
    /\ fd_devices = << >>
    /\ hd_devices = << >>
    /\ cd_devices = << >>
    /\ freed = FALSE
    /\ torn = FALSE
    /\ uaf = FALSE
    /\ crashed = FALSE
    /\ op = "none"
    /\ arg = << >>
    /\ res = NoRes
    /\ \E a \in CmpPaths, b \in CmpPaths, c \in CmpPaths :
        cmp = [NoCmp EXCEPT !.a = a, !.b = b, !.c = c]

Compare ==
    /\ ~cmp.done
    /\ cmp' = [cmp EXCEPT !.done = TRUE,
                          !.ab = compare_device_paths(cmp.a, cmp.b),
                          !.ba = compare_device_paths(cmp.b, cmp.a),
                          !.bc = compare_device_paths(cmp.b, cmp.c),
                          !.ac = compare_device_paths(cmp.a, cmp.c)]
    /\ UNCHANGED << fw_kind, fw_path, fd_devices, hd_devices, cd_devices, freed, torn, uaf,
                    crashed, op, arg, res >>

NextCmp == Compare

SpecCmp == InitCmp /\ [][NextCmp]_vars

(***************************************************************************)
(* Properties.                                                             *)
(***************************************************************************)
\* No record of a persistent list has been freed, so that what the entry
\* points read through the list heads is defined.
Live == ~freed

Resolving == { "get_diskinfo", "biosdisk", "get_current_bdev_handle" }

\* C1: for a drive that resolves to a device and a read or a write,
\* biosdisk makes one transfer, returns a failure when the transfer's status
\* is not success, and returns success only when the transfer succeeded.
C1_TransferStatusReturned ==
    (Live /\ op = "biosdisk" /\ res.dev # NoDev
          /\ arg.subfunc \in { BIOSDISK_READ, BIOSDISK_WRITE })
        => /\ res.transfers = 1
           /\ arg.status # GRUB_EFI_SUCCESS => res.ret # 0
           /\ res.ret = 0 => arg.status = GRUB_EFI_SUCCESS

\* The positions of a list whose entry has the path of the handle the last
\* call was given.
EntriesOfHandle(devices) ==
    { i \in 1 .. Len(devices) : fw_path[devices[i].handle] = fw_path[arg.handle] }

WholeDiskFound(drive) == res.ret = 1 /\ res.partition = WHOLE_DISK /\ res.drive = drive

\* C2 as stated: a handle whose path is that of an entry of any of the
\* three lists is found as the whole disk, with the entry's positional drive
\* number, the fixed optical id for every optical entry.
C2_EveryEntryFound ==
    (Live /\ op = "get_drive_partition")
        => /\ \A i \in EntriesOfHandle(fd_devices) : WholeDiskFound(i - 1)
           /\ \A i \in EntriesOfHandle(hd_devices) : WholeDiskFound(HD_DRIVE_BIT + i - 1)
           /\ \A i \in EntriesOfHandle(cd_devices) : WholeDiskFound(cdrom_drive)

\* C2 amended: a handle whose path is that of an entry of the floppy list,
\* of the hard disk list or of the first entry of the optical list is found
\* as the whole disk with that entry's drive number; a handle whose path is
\* that of a later optical entry is not found.
C2_ListedEntryFound ==
    (Live /\ op = "get_drive_partition")
        => /\ \A i \in EntriesOfHandle(fd_devices) : WholeDiskFound(i - 1)
           /\ \A i \in EntriesOfHandle(hd_devices) : WholeDiskFound(HD_DRIVE_BIT + i - 1)
           /\ \A i \in EntriesOfHandle(cd_devices) :
                IF i = 1 THEN WholeDiskFound(cdrom_drive) ELSE res.ret = 0

C2_Witness ==
    /\ Live /\ op = "get_drive_partition"
    /\ 2 \in EntriesOfHandle(hd_devices)
    /\ res.drive = HD_DRIVE_BIT + 1

\* The entry at position i of a list, NoDev past its end.
Entry(devices, i) == IF i \in 1 .. Len(devices) THEN devices[i] ELSE NoDev

\* C3: a drive number below 0x80 resolves to the entry of the floppy list
\* at that position, a drive number from 0x80 up to the invalid drive to the
\* entry of the hard disk list at the position drive - 0x80, to nothing past
\* the end of the list, and the invalid drive to nothing.
C3_PositionalResolution ==
    (Live /\ op \in Resolving)
        => /\ arg.drive \in 0 .. HD_DRIVE_BIT - 1
                => res.dev = Entry(fd_devices, arg.drive + 1)
           /\ arg.drive \in HD_DRIVE_BIT .. GRUB_INVALID_DRIVE - 1
                => res.dev = Entry(hd_devices, arg.drive - HD_DRIVE_BIT + 1)
           /\ arg.drive = GRUB_INVALID_DRIVE => res.dev = NoDev
           /\ (op = "get_diskinfo" /\ res.dev = NoDev) => res.ret = -1
           /\ (op = "get_current_bdev_handle" /\ arg.partition = WHOLE_DISK)
                => res.handle = res.dev.handle

C3_Witness ==
    /\ Live /\ op = "get_current_bdev_handle"
    /\ arg.drive = HD_DRIVE_BIT + 1 /\ arg.partition = WHOLE_DISK
    /\ Len(hd_devices) = 2
    /\ res.handle = hd_devices[2].handle

\* The paths of the entries of a list and their last nodes.
PathOf(d) == fw_path[d.handle]
LeafOf(d) == SubSeq(PathOf(d), Len(PathOf(d)) - 1, Len(PathOf(d)))

AllLists == { fd_devices, hd_devices, cd_devices }

\* C4 as stated: every list is ascending in the comparison of the whole
\* paths of its entries.
C4_SortedByPath ==
    Live => \A devices \in AllLists : \A i \in 1 .. Len(devices) - 1 :
                compare_device_paths(PathOf(devices[i]), PathOf(devices[i + 1])) < 0

\* C4 amended: every list is ascending in the comparison of the last nodes
\* of its entries, and of their whole paths where the last nodes are equal.
C4_SortedByLeafThenPath ==
    Live => \A devices \in AllLists : \A i \in 1 .. Len(devices) - 1 :
                \/ compare_device_paths(LeafOf(devices[i]), LeafOf(devices[i + 1])) < 0
                \/ /\ compare_device_paths(LeafOf(devices[i]), LeafOf(devices[i + 1])) = 0
                   /\ compare_device_paths(PathOf(devices[i]), PathOf(devices[i + 1])) < 0

C4_Witness ==
    /\ Live /\ op = "init"
    /\ Len(hd_devices) = 2
    /\ compare_device_paths(PathOf(hd_devices[1]), PathOf(hd_devices[2])) > 0

\* No list holds two entries with the same device path.
NoDuplicates ==
    Live => \A devices \in AllLists : \A i, j \in 1 .. Len(devices) :
                PathOf(devices[i]) = PathOf(devices[j]) => i = j

\* The handles make_devices makes a record of, and the list the firmware's
\* data puts each in.
Usable(h) ==
    /\ fw_path[h] # NULL
    /\ Len(fw_path[h]) >= 2
    /\ Catalogue[fw_kind[h]].bio /\ Catalogue[fw_kind[h]].dio

LeafType(h) == fw_path[h][Len(fw_path[h]) - 1].type

Optical(h) == Catalogue[fw_kind[h]].read_only /\ Catalogue[fw_kind[h]].block_size > SECTOR_SIZE

\* old is new with some entries left out, in the same order.
Within(old, new) ==
    \E f \in [1 .. Len(old) -> 1 .. Len(new)] :
        /\ \A i \in 1 .. Len(old) : new[f[i]] = old[i]
        /\ \A i, j \in 1 .. Len(old) : i < j => f[i] < f[j]

\* A step of grub_efidisk_init keeps the entries of a list in their order,
\* and leaves the list as it is when every device it would add to it has
\* the path of an entry of the list.
InitKeeps(old, new, handles) ==
    /\ Within(old, new)
    /\ (\A h \in handles : \E i \in 1 .. Len(old) : fw_path[old[i].handle] = fw_path[h])
            => new = old

DuplicatesSkipped ==
    (Live /\ op' = "init")
        => /\ InitKeeps(fd_devices, fd_devices', { h \in Handles : Usable(h) /\ LeafType(h) = GRUB_EFI_ACPI_DEVICE_PATH_TYPE })
           /\ InitKeeps(hd_devices, hd_devices',
                        { h \in Handles : Usable(h) /\ LeafType(h) = GRUB_EFI_MESSAGING_DEVICE_PATH_TYPE /\ ~Optical(h) })
           /\ InitKeeps(cd_devices, cd_devices',
                        { h \in Handles : Usable(h) /\ LeafType(h) = GRUB_EFI_MESSAGING_DEVICE_PATH_TYPE /\ Optical(h) })

\* C5: no list ever holds two entries with the same device path, and
\* adding a device whose path is that of an entry of the list leaves the
\* list as it is, so that a second grub_efidisk_init over devices that are
\* all listed changes no list.
C5_Deduplication == []NoDuplicates /\ [][DuplicatesSkipped]_vars

\* Two handles with the same path of a hard disk, one entry for both.
C5_Witness ==
    /\ Live /\ op = "init" /\ ~res.alloc_failed
    /\ \E g, h \in Handles :
        /\ g # h /\ fw_path[g] = fw_path[h]
        /\ Usable(g) /\ Usable(h) /\ LeafType(h) = GRUB_EFI_MESSAGING_DEVICE_PATH_TYPE /\ ~Optical(h)
    /\ Len(hd_devices) = 1

\* C6: when grub_efidisk_init, grub_efidisk_get_current_bdev_handle or
\* grub_get_drive_partition_from_bdev_handle returns, every record its
\* make_devices allocated has been freed.
C6_TransientRecordsFreed ==
    (Live /\ op \in { "init", "get_current_bdev_handle", "get_drive_partition" })
        => res.leaked = 0

\* The first position at which two different paths differ.
FirstDiff(a, b) ==
    CHOOSE i \in 1 .. Len(a) :
        /\ i <= Len(b) /\ a[i] # b[i]
        /\ \A j \in 1 .. i - 1 : a[j] = b[j]

\* The first position at which two byte sequences of one length differ.
FirstByteDiff(x, y) ==
    CHOOSE i \in 1 .. Len(x) : x[i] # y[i] /\ \A j \in 1 .. i - 1 : x[j] = y[j]

\* Node x sorts before the different node y: the larger type first, then
\* the smaller subtype, then the smaller length, then the smaller payload.
NodeBefore(x, y) ==
    IF x.type # y.type THEN x.type > y.type
    ELSE IF x.subtype # y.subtype THEN x.subtype < y.subtype
    ELSE IF x.length # y.length THEN x.length < y.length
    ELSE x.data[FirstByteDiff(x.data, y.data)] < y.data[FirstByteDiff(x.data, y.data)]

\* C7: on well-formed paths compare_device_paths is a strict total order:
\* it returns 0 exactly for two paths of the same nodes, a negative value
\* exactly when it returns a positive one for the arguments exchanged, it
\* is transitive, and the first pair of nodes that differ decides, by type
\* (the larger first), then subtype, then length, then payload.
C7_StrictTotalOrder ==
    cmp.done
        => /\ cmp.ab = 0 <=> cmp.a = cmp.b
           /\ cmp.ab < 0 <=> cmp.ba > 0
           /\ (cmp.ab < 0 /\ cmp.bc < 0) => cmp.ac < 0
           /\ cmp.a # cmp.b
                => (cmp.ab < 0 <=> NodeBefore(cmp.a[FirstDiff(cmp.a, cmp.b)],
                                              cmp.b[FirstDiff(cmp.a, cmp.b)]))

\* Three paths in order, the first two differing after a common node in a
\* pair of nodes whose types and subtypes disagree.
C7_Witness ==
    /\ cmp.done /\ cmp.ab < 0 /\ cmp.bc < 0 /\ cmp.ac < 0
    /\ Len(cmp.a) = 3 /\ Len(cmp.b) = 3
    /\ FirstDiff(cmp.a, cmp.b) = 2
    /\ cmp.a[2].type > cmp.b[2].type
    /\ cmp.a[2].subtype > cmp.b[2].subtype

\* C8: for a drive that resolves, get_diskinfo returns 0 and the geometry
\* is last_block + 1 sectors of the media's block size, 63 sectors a track,
\* 1 head when total_sectors / 63 < 255 and 255 otherwise, and
\* total_sectors / 63 / heads cylinders (1,000,000 sectors: 255 heads, 62
\* cylinders; 10,000 sectors: 1 head, 158 cylinders); for a drive that does
\* not resolve it returns an error and leaves the geometry as it was.
C8_Geometry ==
    (Live /\ op = "get_diskinfo")
        => LET g == res.geometry
               m == Catalogue[fw_kind[res.dev.handle]]
           IN  IF res.dev = NoDev THEN res.ret = -1 /\ g = NoGeometry
               ELSE /\ res.ret = 0
                    /\ g.total_sectors = m.last_block + 1
                    /\ g.sector_size = m.block_size
                    /\ g.sectors = 63
                    /\ g.heads = (IF g.total_sectors \div 63 < 255 THEN 1 ELSE 255)
                    /\ g.cylinders = (g.total_sectors \div 63) \div g.heads
                    /\ g.total_sectors = 1000000 => (g.heads = 255 /\ g.cylinders = 62)
                    /\ g.total_sectors = 10000 => (g.heads = 1 /\ g.cylinders = 158)
                    /\ g.total_sectors = 16065 => (g.heads = 255 /\ g.cylinders = 1)

C8_Witness ==
    /\ Live /\ op = "get_diskinfo"
    /\ res.geometry.total_sectors = 1000000
    /\ res.geometry.heads = 255 /\ res.geometry.cylinders = 62

\* The enumerated records that are the partition the last call of
\* grub_efidisk_get_current_bdev_handle looked for: the path less its last
\* node is the path of the resolved disk, and the last node is a hard drive
\* media node of the start and the length given.
IsPartitionSought(c) ==
    LET p == fw_path[c.handle]
        d == fw_path[res.dev.handle]
    IN  /\ SubSeq(p, 1, Len(p) - 2) = SubSeq(d, 1, Len(d) - 1)
        /\ p[Len(p) - 1].type = 4
        /\ p[Len(p) - 1].subtype = 1
        /\ p[Len(p) - 1].data = << arg.part_start, arg.part_length >>

\* The handle of the first of them in the order of the enumeration, 0 when
\* there is none.
HandleSought ==
    LET found == { i \in 1 .. Len(res.enumerated) : IsPartitionSought(res.enumerated[i]) }
    IN  IF found = { } THEN 0
        ELSE res.enumerated[CHOOSE i \in found : \A j \in found : i <= j].handle

PartitionLookup ==
    /\ Live /\ op = "get_current_bdev_handle"
    /\ arg.drive \in HD_DRIVE_BIT .. GRUB_INVALID_DRIVE - 1
    /\ res.dev # NoDev
    /\ arg.partition # WHOLE_DISK

\* C9 as stated: for a hard disk that resolves and a partition other than
\* the whole disk, the handle returned is that of the first enumerated
\* device that is the partition sought, and the null handle when there is
\* none.
C9_FirstMatchingChild == PartitionLookup => res.handle = HandleSought

\* C9 amended: it is that handle, or the null handle when an allocation of
\* the call failed (the copy of a path in iterate_child_devices ends the
\* search).
C9_FirstMatchingChildOrNoMemory ==
    PartitionLookup => \/ res.handle = HandleSought
                       \/ res.alloc_failed /\ res.handle = 0

C9_Witness ==
    /\ PartitionLookup /\ ~res.alloc_failed
    /\ res.handle # 0 /\ res.handle = HandleSought
    /\ res.handle # res.dev.handle

\* C10: after grub_efidisk_fini the three lists are empty, a drive resolves
\* to nothing until the next grub_efidisk_init, and no freed record is
\* reached through a list head.
C10_EmptyAfterTeardown ==
    /\ torn => /\ fd_devices = << >> /\ hd_devices = << >> /\ cd_devices = << >>
               /\ op \in Resolving => res.dev = NoDev
    /\ ~uaf

====
